---- MODULE Spec2Model ----
(***************************************************************************)
(* Model of src/main.py: the Streamlit dashboard script that loads the     *)
(* per-school environment CSV files and the growth workbook from a data    *)
(* directory, gates the render on both mappings, and builds the overview,  *)
(* environment and growth summaries.                                       *)
(*                                                                         *)
(* Strings are sequences of Unicode code points.  A table is the sequence  *)
(* of its rows.  A Python dict is the sequence of its <<key, value>> pairs *)
(* in insertion order.  A mean is the pair <<sum, count>>; NaN is the mean *)
(* of zero values.                                                         *)
(***************************************************************************)
EXTENDS Integers, Sequences, FiniteSets, TLC

(***************************************************************************)
(* Bounds of the model.                                                    *)
(***************************************************************************)
\* at most this many of the four environment files deviate from "present, composed name"
MaxIrregular == 3
\* at most this many plants (rows) over all sheets of a generated workbook
MaxPlants == 3
\* at most this many .xlsx entries in a generated directory
MaxXlsx == 2

\* fresh weights a generated growth row may carry
Weights == {1, 2}

(***************************************************************************)
(* Unicode: Hangul syllable arithmetic used by canonical (de)composition.  *)
(***************************************************************************)
SBase == 44032
LBase == 4352
VBase == 4449
TBase == 4519
LCount == 19
VCount == 21
TCount == 28
NCount == 588
SCount == 11172

IsSyllable(c) == c >= SBase /\ c < SBase + SCount
IsL(c) == c >= LBase /\ c < LBase + LCount
IsV(c) == c >= VBase /\ c < VBase + VCount
IsT(c) == c > TBase /\ c < TBase + TCount
IsLV(c) == IsSyllable(c) /\ (c - SBase) % TCount = 0

\* canonical decomposition of one code point
DecomposeChar(c) ==
    IF IsSyllable(c)
    THEN LET s == c - SBase
             l == LBase + (s \div NCount)
             v == VBase + ((s % NCount) \div TCount)
             t == TBase + (s % TCount)
         IN IF t = TBase THEN <<l, v>> ELSE <<l, v, t>>
    ELSE <<c>>

RECURSIVE Decompose(_)
Decompose(s) ==
    IF s = <<>> THEN <<>> ELSE DecomposeChar(Head(s)) \o Decompose(Tail(s))

\* canonical composition: L+V -> LV, LV+T -> LVT, scanning left to right
RECURSIVE ComposeFrom(_, _)
ComposeFrom(acc, s) ==
    IF s = <<>> THEN acc
    ELSE LET ch == Head(s)
             n == Len(acc)
             last == IF n = 0 THEN 0 ELSE acc[n]
         IN IF n > 0 /\ IsL(last) /\ IsV(ch)
            THEN ComposeFrom(
                   [acc EXCEPT ![n] = SBase + ((last - LBase) * VCount + (ch - VBase)) * TCount],
                   Tail(s))
            ELSE IF n > 0 /\ IsLV(last) /\ IsT(ch)
            THEN ComposeFrom([acc EXCEPT ![n] = last + (ch - TBase)], Tail(s))
            ELSE ComposeFrom(Append(acc, ch), Tail(s))

NFC(s) == ComposeFrom(<<>>, Decompose(s))

\* a mutant of normalize_name: the name is used as stored
normalize_name_raw(name) == name

\* def normalize_name(name): return unicodedata.normalize("NFC", name)
normalize_name(name) == NFC(name)

(***************************************************************************)
(* str and pathlib helpers.                                                *)
(***************************************************************************)
Dot == 46

LowerChar(c) == IF c >= 65 /\ c <= 90 THEN c + 32 ELSE c
\* str.lower()
Lower(s) == [i \in 1..Len(s) |-> LowerChar(s[i])]

\* str.rfind("."), 1-based, 0 when there is none
RFindDot(s) ==
    LET P == {i \in 1..Len(s) : s[i] = Dot}
    IN IF P = {} THEN 0 ELSE CHOOSE i \in P : \A j \in P : j <= i

\* Path.suffix of a final path component: from the last dot, unless the dot
\* leads or ends the name
PathSuffix(name) ==
    LET i == RFindDot(name)
    IN IF 1 < i /\ i < Len(name) THEN SubSeq(name, i, Len(name)) ELSE <<>>

StartsWith(s, p) == Len(s) >= Len(p) /\ SubSeq(s, 1, Len(p)) = p

\* s.replace(old, ""): every non-overlapping occurrence, left to right
RECURSIVE StrRemove(_, _)
StrRemove(s, old) ==
    IF s = <<>> THEN <<>>
    ELSE IF StartsWith(s, old) THEN StrRemove(SubSeq(s, Len(old) + 1, Len(s)), old)
    ELSE <<Head(s)>> \o StrRemove(Tail(s), old)

(***************************************************************************)
(* Literals of the script.                                                 *)
(***************************************************************************)
\* ".csv" and ".xlsx"
CSV_EXT == <<46, 99, 115, 118>>
XLSX_EXT == <<46, 120, 108, 115, 120>>
\* "_환경데이터.csv"
ENV_SUFFIX == <<95, 54872, 44221, 45936, 51060, 53552, 46, 99, 115, 118>>

\* "송도고", "하늘고", "아라고", "동산고", "전체"
Songdo == <<49569, 46020, 44256>>
Haneul == <<54616, 45720, 44256>>
Ara == <<50500, 46972, 44256>>
Dongsan == <<46041, 49328, 44256>>
ALL_SCHOOLS == <<51204, 52404>>

\* Python None, where a number is expected
None == -1
NaN == <<0, 0>>

\* EC_TARGET, in insertion order
EC_TARGET == << <<Songdo, 1>>, <<Haneul, 2>>, <<Ara, 4>>, <<Dongsan, 8>> >>

(***************************************************************************)
(* dict helpers.                                                           *)
(***************************************************************************)
Keys(d) == [i \in 1..Len(d) |-> d[i][1]]
KeySet(d) == {d[i][1] : i \in 1..Len(d)}
HasKey(d, k) == k \in KeySet(d)
\* d[k], for a key that is present
Get(d, k) == d[CHOOSE i \in 1..Len(d) : d[i][1] = k][2]
\* d.get(k, None)
GetOrNone(d, k) == IF HasKey(d, k) THEN Get(d, k) ELSE None
\* d[k] = v: an existing key keeps its position
Put(d, k, v) ==
    IF HasKey(d, k)
    THEN [i \in 1..Len(d) |-> IF d[i][1] = k THEN <<k, v>> ELSE d[i]]
    ELSE Append(d, <<k, v>>)

GROUPS == Keys(EC_TARGET)
\* SCHOOLS = ["전체"] + list(EC_TARGET.keys())
SCHOOLS == <<ALL_SCHOOLS>> \o GROUPS

(***************************************************************************)
(* pandas helpers.                                                         *)
(***************************************************************************)
RECURSIVE Sum(_)
Sum(col) == IF col = <<>> THEN 0 ELSE Head(col) + Sum(Tail(col))

\* Series.mean(): NaN for an empty column
Mean(col) == IF Len(col) = 0 THEN NaN ELSE <<Sum(col), Len(col)>>

IsNaN(m) == m[2] = 0
\* a > b and a = b on non-NaN means
Greater(a, b) == a[1] * b[2] > b[1] * a[2]
SameMean(a, b) == a[1] * b[2] = b[1] * a[2]

Column(df, f) == [i \in 1..Len(df) |-> df[i][f]]

\* pd.concat of the tables of a dict, in its order
RECURSIVE ConcatValues(_)
ConcatValues(d) == IF d = <<>> THEN <<>> ELSE Head(d)[2] \o ConcatValues(Tail(d))

NoIndex == 0

\* a mutant of IdxMaxFrom: a later row replaces the best on an equal mean
RECURSIVE IdxMaxFrom_last(_, _, _)
IdxMaxFrom_last(series, i, best) ==
    IF i > Len(series) THEN best
    ELSE IF IsNaN(series[i]) THEN IdxMaxFrom_last(series, i + 1, best)
    ELSE IF best = NoIndex \/ ~Greater(series[best], series[i])
         THEN IdxMaxFrom_last(series, i + 1, i)
    ELSE IdxMaxFrom_last(series, i + 1, best)

\* the scan of Series.idxmax(): NaN is skipped, a later row replaces the best
\* only when strictly greater
RECURSIVE IdxMaxFrom(_, _, _)
IdxMaxFrom(series, i, best) ==
    IF i > Len(series) THEN best
    ELSE IF IsNaN(series[i]) THEN IdxMaxFrom(series, i + 1, best)
    ELSE IF best = NoIndex \/ Greater(series[i], series[best])
         THEN IdxMaxFrom(series, i + 1, i)
    ELSE IdxMaxFrom(series, i + 1, best)

\* a mutant of IdxMax: the last of several equal maxima
IdxMax_last(series) == IdxMaxFrom_last(series, 1, NoIndex)

\* Series.idxmax() as a row position (1-based); NoIndex when every value is
\* NaN, where pandas returns NaN or raises, depending on its version
IdxMax(series) == IdxMaxFrom(series, 1, NoIndex)

(***************************************************************************)
(* The data directory: the sequence of its entries in enumeration order.   *)
(* An entry is [name, ok, rows, sheets]: ok says whether the pandas reader *)
(* accepts the file; rows is what read_csv yields, sheets what ExcelFile   *)
(* yields (a sequence of [name, rows]).                                    *)
(***************************************************************************)
IsCsv(file) == Lower(PathSuffix(file.name)) = CSV_EXT
IsXlsx(file) == Lower(PathSuffix(file.name)) = XLSX_EXT

\* a mutant of SchoolOf: the suffix is not stripped
SchoolOf_keep(fname) == fname

\* school = fname.replace("_환경데이터.csv", "")
SchoolOf(fname) == StrRemove(fname, ENV_SUFFIX)

\* a mutant of EnvStep: a file that fails to parse is skipped silently
EnvStep_silent(acc, file) ==
    IF IsCsv(file) /\ file.ok
    THEN [acc EXCEPT !.value = Put(@, SchoolOf(normalize_name(file.name)), file.rows)]
    ELSE acc

\* one iteration of the loop of load_environment_data
EnvStep(acc, file) ==
    IF IsCsv(file)
    THEN LET fname == normalize_name(file.name)
             school == SchoolOf(fname)
         IN IF file.ok
            THEN [acc EXCEPT !.value = Put(@, school, file.rows)]
            ELSE [acc EXCEPT !.msgs = Append(@, <<"csv_failed", file.name>>)]
    ELSE acc

RECURSIVE EnvLoop(_, _, _)
EnvLoop(d, i, acc) ==
    IF i > Len(d) THEN acc ELSE EnvLoop(d, i + 1, EnvStep(acc, d[i]))

\* load_environment_data(data_dir): the mapping and the st.error messages
load_environment_data(d) ==
    LET r == EnvLoop(d, 1, [value |-> <<>>, msgs |-> <<>>])
    IN IF r.value = <<>>
       THEN [r EXCEPT !.msgs = Append(@, <<"no_csv">>)]
       ELSE r

\* {sheet: xls.parse(sheet) for sheet in xls.sheet_names}
RECURSIVE SheetDict(_, _, _)
SheetDict(sheets, i, acc) ==
    IF i > Len(sheets) THEN acc
    ELSE SheetDict(sheets, i + 1, Put(acc, sheets[i].name, sheets[i].rows))

\* a mutant of GrowthStep: the loop does not return on the first workbook read
GrowthStep_noreturn(acc, file, i) ==
    IF IsXlsx(file)
    THEN IF file.ok
         THEN [acc EXCEPT !.value = SheetDict(file.sheets, 1, <<>>),
                          !.opened = Append(@, i), !.returned = TRUE]
         ELSE [acc EXCEPT !.msgs = Append(@, <<"xlsx_failed">>),
                          !.opened = Append(@, i)]
    ELSE acc

\* one iteration of the loop of load_growth_data; returned says the function
\* has left the loop with "return growth_data"
GrowthStep(acc, file, i) ==
    IF acc.returned THEN acc
    ELSE IF IsXlsx(file)
    THEN IF file.ok
         THEN [acc EXCEPT !.value = SheetDict(file.sheets, 1, <<>>),
                          !.opened = Append(@, i), !.returned = TRUE]
         ELSE [acc EXCEPT !.msgs = Append(@, <<"xlsx_failed">>),
                          !.opened = Append(@, i)]
    ELSE acc

RECURSIVE GrowthLoop(_, _, _)
GrowthLoop(d, i, acc) ==
    IF i > Len(d) THEN acc ELSE GrowthLoop(d, i + 1, GrowthStep(acc, d[i], i))

\* load_growth_data(data_dir): the mapping, the st.error messages and the
\* positions of the entries it opened
load_growth_data(d) ==
    LET r == GrowthLoop(d, 1, [value |-> <<>>, msgs |-> <<>>, opened |-> <<>>,
                               returned |-> FALSE])
    IN IF r.returned
       THEN r
       ELSE [r EXCEPT !.msgs = Append(@, <<"no_xlsx">>), !.value = <<>>]

(***************************************************************************)
(* Directories the model starts from.                                      *)
(***************************************************************************)
\* the decomposed (NFD) spellings of "<school>_환경데이터.csv", as a file
\* system that stores decomposed names holds them
ENV_SUFFIX_NFD == <<95, 4370, 4458, 4523, 4352, 4455, 4540, 4355, 4454, 4363,
                    4469, 4368, 4453, 46, 99, 115, 118>>
GROUPS_NFD == << <<4361, 4457, 4540, 4355, 4457, 4352, 4457>>,
                 <<4370, 4449, 4354, 4467, 4527, 4352, 4457>>,
                 <<4363, 4449, 4357, 4449, 4352, 4457>>,
                 <<4355, 4457, 4540, 4361, 4449, 4523, 4352, 4457>> >>

EnvNameNFC(g) == GROUPS[g] \o ENV_SUFFIX
EnvNameNFD(g) == GROUPS_NFD[g] \o ENV_SUFFIX_NFD

\* one sensor row per school; the measured ec is the school's target
EnvRows(g) == << [temperature |-> 20 + g, humidity |-> 60, ph |-> 6,
                  ec |-> EC_TARGET[g][2]] >>

CsvEntry(name, ok, rows) == [name |-> name, ok |-> ok, rows |-> rows, sheets |-> <<>>]
XlsxEntry(name, ok, sheets) == [name |-> name, ok |-> ok, rows |-> <<>>, sheets |-> sheets]

EnvStatus == {"nfc", "nfd", "bad", "absent"}

RECURSIVE EnvEntries(_, _)
EnvEntries(st, g) ==
    IF g > Len(GROUPS) THEN <<>>
    ELSE (IF st[g] = "absent" THEN <<>>
          ELSE << CsvEntry(IF st[g] = "nfd" THEN EnvNameNFD(g) ELSE EnvNameNFC(g),
                           st[g] # "bad", EnvRows(g)) >>)
         \o EnvEntries(st, g + 1)

AllNfc == [g \in 1..Len(GROUPS) |-> "nfc"]
AllAbsent == [g \in 1..Len(GROUPS) |-> "absent"]
EnvLayouts ==
    {st \in [1..Len(GROUPS) -> EnvStatus] :
        Cardinality({g \in 1..Len(GROUPS) : st[g] # "nfc"}) <= MaxIrregular}

\* "x.CSV": a readable file of another name, with an upper-case extension
EXTRA_CSV == CsvEntry(<<120, 46, 67, 83, 86>>, TRUE, EnvRows(1))
\* "기타": a sheet that is no configured school
EXTRA_SHEET == [name |-> <<44592, 53440>>, rows |-> <<2>>]

\* a growth table is the sequence of its rows' fresh weights; leaf count and
\* shoot length are averaged the same way and decide nothing
Sheets(tables, order) == [i \in 1..Len(order) |-> [name |-> GROUPS[order[i]], rows |-> tables[order[i]]]]

Forward == <<1, 2, 3, 4>>
Backward == <<4, 3, 2, 1>>

\* the reference workbook: one sheet per school, 아라고 the heaviest
FULL_TABLES == << <<1, 2>>, <<2, 2>>, <<3, 3>>, <<1>> >>
FullWb == Sheets(FULL_TABLES, Forward)
\* another workbook: 하늘고 the heaviest
AltWb == Sheets(<< <<1>>, <<3>>, <<2>>, <<1>> >>, Forward)
\* a workbook without the sheet of the first school, and one with a foreign sheet
PartWb == Sheets(FULL_TABLES, <<2, 3, 4>>)
MoreWb == Append(FullWb, EXTRA_SHEET)

\* "a.xlsx", "b.xlsx", ...
XlsxName(i) == <<96 + i>> \o XLSX_EXT

\* every way to fill k tables with at most budget rows in all
RECURSIVE TableTuples(_, _)
TableTuples(k, budget) ==
    IF k = 0 THEN {<<>>}
    ELSE UNION {{<<t>> \o rest : t \in [1..n -> Weights],
                                 rest \in TableTuples(k - 1, budget - n)} :
                n \in 0..budget}

XlsxChoices == {[ok |-> TRUE, sheets |-> FullWb], [ok |-> TRUE, sheets |-> AltWb],
                [ok |-> FALSE, sheets |-> <<>>]}
XlsxLists == UNION {[1..n -> XlsxChoices] : n \in 0..MaxXlsx}
XlsxEntries(l) == [i \in 1..Len(l) |-> XlsxEntry(XlsxName(i), l[i].ok, l[i].sheets)]

\* the directory as the experiment intends it
GoodDir == EnvEntries(AllNfc, 1) \o <<XlsxEntry(XlsxName(1), TRUE, FullWb)>>

\* environment files varied, against three workbooks
EnvVariedDirs ==
    {EnvEntries(st, 1) \o extra \o <<XlsxEntry(XlsxName(1), TRUE, wb)>> :
        st \in EnvLayouts, extra \in {<<>>, <<EXTRA_CSV>>}, wb \in {FullWb, PartWb, MoreWb}}
\* the workbook's tables and sheet order varied, all environment files present
GrowthVariedDirs ==
    {EnvEntries(AllNfc, 1) \o <<XlsxEntry(XlsxName(1), TRUE, Sheets(t, order))>> :
        t \in TableTuples(Len(GROUPS), MaxPlants), order \in {Forward, Backward}}
\* the .xlsx entries varied, with all or none of the environment files
XlsxVariedDirs ==
    {EnvEntries(st, 1) \o XlsxEntries(l) : st \in {AllNfc, AllAbsent}, l \in XlsxLists}

InitDirs == EnvVariedDirs \cup GrowthVariedDirs \cup XlsxVariedDirs

(***************************************************************************)
(* State.                                                                  *)
(***************************************************************************)
VARIABLES
    dir,              \* the data directory on disk
    cache_env,        \* st.cache_data of load_environment_data: <<>> or <<result>>
    cache_growth,     \* st.cache_data of load_growth_data: <<>> or <<result>>
    env_src,          \* history: the directory the cached environment result was read from
    growth_src,       \* history: the directory the cached growth result was read from
    reads,            \* history: how often each loader's body has read the disk
    selected_school,  \* the sidebar selectbox
    pc,               \* the script's position in the current render
    env_data,         \* script globals of the current render
    growth_data,
    errors,           \* st.error messages shown in the current render
    overview_df,      \* tab 1 table
    cards,            \* tab 1 metric cards
    summary_df,       \* tab 2 table
    gdf,              \* tab 3 table
    best_ec,          \* tab 3 metric
    exc               \* the uncaught exception that ended the render, or ""

vars == <<dir, cache_env, cache_growth, env_src, growth_src, reads, selected_school,
          pc, env_data, growth_data, errors, overview_df, cards, summary_df, gdf,
          best_ec, exc>>

Ended == {"done", "stopped", "crashed"}

\* what a run of the script starts from
FreshRun ==
    /\ env_data' = <<>>
    /\ growth_data' = <<>>
    /\ errors' = <<>>
    /\ overview_df' = <<>>
    /\ cards' = <<>>
    /\ summary_df' = <<>>
    /\ gdf' = <<>>
    /\ best_ec' = None
    /\ exc' = ""

Init ==
    /\ dir \in InitDirs
    /\ cache_env = <<>>
    /\ cache_growth = <<>>
    /\ env_src = <<>>
    /\ growth_src = <<>>
    /\ reads = [env |-> 0, growth |-> 0]
    /\ selected_school = SCHOOLS[1]
    /\ pc = "env"
    /\ env_data = <<>>
    /\ growth_data = <<>>
    /\ errors = <<>>
    /\ overview_df = <<>>
    /\ cards = <<>>
    /\ summary_df = <<>>
    /\ gdf = <<>>
    /\ best_ec = None
    /\ exc = ""

(***************************************************************************)
(* The script, one action per section.                                     *)
(***************************************************************************)
\* env_data = load_environment_data(DATA_DIR), through st.cache_data: the
\* body runs only when nothing is cached for the argument; whatever it
\* returned, and the messages it showed, are stored and replayed
CallLoadEnvironment ==
    /\ pc = "env"
    /\ LET hit == cache_env # <<>>
           r == IF hit THEN cache_env[1] ELSE load_environment_data(dir)
       IN /\ cache_env' = <<r>>
          /\ env_src' = IF hit THEN env_src ELSE dir
          /\ reads' = IF hit THEN reads ELSE [reads EXCEPT !.env = @ + 1]
          /\ env_data' = r.value
          /\ errors' = errors \o r.msgs
    /\ pc' = "growth"
    /\ UNCHANGED <<dir, cache_growth, growth_src, selected_school, growth_data,
                   overview_df, cards, summary_df, gdf, best_ec, exc>>

\* growth_data = load_growth_data(DATA_DIR), through st.cache_data
CallLoadGrowth ==
    /\ pc = "growth"
    /\ LET hit == cache_growth # <<>>
           r == IF hit THEN cache_growth[1] ELSE load_growth_data(dir)
       IN /\ cache_growth' = <<r>>
          /\ growth_src' = IF hit THEN growth_src ELSE dir
          /\ reads' = IF hit THEN reads ELSE [reads EXCEPT !.growth = @ + 1]
          /\ growth_data' = r.value
          /\ errors' = errors \o r.msgs
    /\ pc' = "gate"
    /\ UNCHANGED <<dir, cache_env, env_src, selected_school, env_data,
                   overview_df, cards, summary_df, gdf, best_ec, exc>>

\* a mutant of GateHalts: the render also stops when a configured school is missing
GateHalts_strict(env, growth) ==
    env = <<>> \/ growth = <<>> \/ \E g \in 1..Len(GROUPS) : ~HasKey(env, GROUPS[g])

\* if not env_data or not growth_data
GateHalts(env, growth) == env = <<>> \/ growth = <<>>

Gate ==
    /\ pc = "gate"
    /\ pc' = IF GateHalts(env_data, growth_data) THEN "stopped" ELSE "tab1"
    /\ UNCHANGED <<dir, cache_env, cache_growth, env_src, growth_src, reads,
                   selected_school, env_data, growth_data, errors, overview_df,
                   cards, summary_df, gdf, best_ec, exc>>

\* the "최적 EC" card of tab 1: the literal "2.0 (하늘고)"
OPTIMAL_CARD == [ec |-> 2, school |-> Haneul]

OverviewRows(growth) ==
    [i \in 1..Len(EC_TARGET) |->
        [school |-> EC_TARGET[i][1], target |-> EC_TARGET[i][2],
         count |-> Len(Get(growth, EC_TARGET[i][1]))]]

\* sum(len(df) for df in growth_data.values())
TotalPlants(growth) == Len(ConcatValues(growth))

\* tab 1: growth_data[k] for every configured school raises KeyError for a
\* school without a sheet
Tab1 ==
    /\ pc = "tab1"
    /\ IF \E i \in 1..Len(GROUPS) : ~HasKey(growth_data, GROUPS[i])
       THEN /\ pc' = "crashed"
            /\ exc' = "KeyError in tab1"
            /\ UNCHANGED <<overview_df, cards>>
       ELSE /\ overview_df' = OverviewRows(growth_data)
            /\ cards' = << [total_plants |-> TotalPlants(growth_data),
                            avg_temp |-> Mean(Column(ConcatValues(env_data), "temperature")),
                            avg_hum |-> Mean(Column(ConcatValues(env_data), "humidity")),
                            optimal |-> OPTIMAL_CARD] >>
            /\ pc' = "tab2"
            /\ exc' = exc
    /\ UNCHANGED <<dir, cache_env, cache_growth, env_src, growth_src, reads,
                   selected_school, env_data, growth_data, errors, summary_df,
                   gdf, best_ec>>

\* summary_rows of tab 2: one row per key of env_data
SummaryRows(env) ==
    [i \in 1..Len(env) |->
        [school |-> env[i][1],
         temperature |-> Mean(Column(env[i][2], "temperature")),
         humidity |-> Mean(Column(env[i][2], "humidity")),
         ph |-> Mean(Column(env[i][2], "ph")),
         ec |-> Mean(Column(env[i][2], "ec")),
         target |-> GetOrNone(EC_TARGET, env[i][1])]]

\* tab 2: the summary is built and charted first; the time series then reads
\* env_data[selected_school], a KeyError for a school that was not loaded
Tab2 ==
    /\ pc = "tab2"
    /\ summary_df' = SummaryRows(env_data)
    /\ IF selected_school # SCHOOLS[1] /\ ~HasKey(env_data, selected_school)
       THEN pc' = "crashed" /\ exc' = "KeyError in tab2"
       ELSE pc' = "tab3" /\ exc' = exc
    /\ UNCHANGED <<dir, cache_env, cache_growth, env_src, growth_src, reads,
                   selected_school, env_data, growth_data, errors, overview_df,
                   cards, gdf, best_ec>>

\* growth_summary of tab 3: one row per sheet
GrowthRows(growth) ==
    [i \in 1..Len(growth) |->
        [school |-> growth[i][1],
         ec |-> Get(EC_TARGET, growth[i][1]),
         weight |-> Mean(growth[i][2]),
         count |-> Len(growth[i][2])]]

\* tab 3: EC_TARGET[school] raises KeyError for a sheet that is no configured
\* school; gdf.loc[best_idx, "EC"] fails when idxmax found no value
Tab3 ==
    /\ pc = "tab3"
    /\ IF \E i \in 1..Len(growth_data) : ~HasKey(EC_TARGET, growth_data[i][1])
       THEN /\ pc' = "crashed"
            /\ exc' = "KeyError in tab3"
            /\ UNCHANGED <<gdf, best_ec>>
       ELSE LET rows == GrowthRows(growth_data)
                best_idx == IdxMax(Column(rows, "weight"))
            IN /\ gdf' = rows
               /\ IF best_idx = NoIndex
                  THEN pc' = "crashed" /\ exc' = "no best_idx in tab3" /\ best_ec' = best_ec
                  ELSE pc' = "done" /\ exc' = exc /\ best_ec' = rows[best_idx].ec
    /\ UNCHANGED <<dir, cache_env, cache_growth, env_src, growth_src, reads,
                   selected_school, env_data, growth_data, errors, overview_df,
                   cards, summary_df>>

\* the user picks a school (or reloads the page): the script runs again
Rerun ==
    /\ pc \in Ended
    /\ \E s \in 1..Len(SCHOOLS) : selected_school' = SCHOOLS[s]
    /\ pc' = "env"
    /\ FreshRun
    /\ UNCHANGED <<dir, cache_env, cache_growth, env_src, growth_src, reads>>

\* between renders somebody puts the intended files into the data directory
RepairFiles ==
    /\ pc \in Ended
    /\ dir # GoodDir
    /\ dir' = GoodDir
    /\ UNCHANGED <<cache_env, cache_growth, env_src, growth_src, reads,
                   selected_school, pc, env_data, growth_data, errors, overview_df,
                   cards, summary_df, gdf, best_ec, exc>>

\* between renders somebody empties the data directory
RemoveFiles ==
    /\ pc \in Ended
    /\ dir # <<>>
    /\ dir' = <<>>
    /\ UNCHANGED <<cache_env, cache_growth, env_src, growth_src, reads,
                   selected_school, pc, env_data, growth_data, errors, overview_df,
                   cards, summary_df, gdf, best_ec, exc>>

Next ==
    \/ CallLoadEnvironment
    \/ CallLoadGrowth
    \/ Gate
    \/ Tab1
    \/ Tab2
    \/ Tab3
    \/ Rerun
    \/ RepairFiles
    \/ RemoveFiles

Spec == Init /\ [][Next]_vars

(***************************************************************************)
(* Vocabulary of the properties.                                           *)
(***************************************************************************)
G == 1..Len(GROUPS)
GroupSet == {GROUPS[g] : g \in G}
EcOf(school) == Get(EC_TARGET, school)

\* the entries of d stored under the name of school g's environment file, in
\* either composition form
EnvFilesOf(d, g) == {i \in 1..Len(d) : d[i].name \in {EnvNameNFC(g), EnvNameNFD(g)}}
ReadableEnvFilesOf(d, g) == {i \in EnvFilesOf(d, g) : d[i].ok}
SomeEnvFileAbsent(d) == \E g \in G : EnvFilesOf(d, g) = {}
CsvOf(d) == {i \in 1..Len(d) : IsCsv(d[i])}
UnreadableCsvOf(d) == {i \in CsvOf(d) : ~d[i].ok}
OtherCsvOf(d) == {i \in CsvOf(d) : d[i].ok /\ \A g \in G : i \notin EnvFilesOf(d, g)}
XlsxOf(d) == {i \in 1..Len(d) : IsXlsx(d[i])}
ReadableXlsxOf(d) == {i \in XlsxOf(d) : d[i].ok}
Least(S) == CHOOSE i \in S : \A j \in S : i <= j
\* the members of S in ascending order
RECURSIVE Ascending(_)
Ascending(S) == IF S = {} THEN <<>> ELSE <<Least(S)>> \o Ascending(S \ {Least(S)})

EnvLoaded == pc # "env"
BothLoaded == pc \notin {"env", "growth"}
PastGate == pc \notin {"env", "growth", "gate"}
HaltedAtGate == pc = "stopped"
NoTableBuilt == overview_df = <<>> /\ summary_df = <<>> /\ gdf = <<>>
SchoolsIn(df) == {df[i].school : i \in 1..Len(df)}

\* averages compared on the raw rows
AvgGreater(a, b) == Sum(a) * Len(b) > Sum(b) * Len(a)
AvgSame(a, b) == Sum(a) * Len(b) = Sum(b) * Len(a)

(***************************************************************************)
(* C1                                                                      *)
(***************************************************************************)
\* C1 as stated: when the environment file of some configured school is
\* absent from the directory that was loaded, the render is halted before any
\* table is built and never reaches the tabs with the other schools' mapping.
C1_AbsentFileHaltsRender ==
    (EnvLoaded /\ SomeEnvFileAbsent(env_src)) =>
        (pc \in {"growth", "gate", "stopped"} /\ NoTableBuilt)

\* C1 amended: when the environment file of some configured school is
\* absent, load_environment_data returns the mapping of the schools whose
\* files it could read; the render is halted at the gate exactly when that
\* mapping or the growth mapping is empty (and then no table is built), and
\* otherwise the tabs run on the partial mapping.
C1_AbsentFileHaltsOnlyWhenEmpty ==
    (EnvLoaded /\ SomeEnvFileAbsent(env_src)) =>
        /\ \A g \in G : HasKey(env_data, GROUPS[g]) <=> ReadableEnvFilesOf(env_src, g) # {}
        /\ PastGate => (HaltedAtGate <=> (env_data = <<>> \/ growth_data = <<>>))
        /\ HaltedAtGate => NoTableBuilt

\* a render that went through all tabs although one school's file is absent
C1_Witness ==
    /\ pc = "done"
    /\ SomeEnvFileAbsent(env_src)
    /\ Len(summary_df) = Len(GROUPS) - 1

(***************************************************************************)
(* C2                                                                      *)
(***************************************************************************)
\* C2 as stated: when some .csv entry cannot be parsed, the load fails as a
\* whole with an error naming the file: no mapping of the remaining files
\* is returned and the render does not reach the tabs.
C2_ParseFailureHaltsRender ==
    (EnvLoaded /\ UnreadableCsvOf(env_src) # {}) =>
        /\ \A i \in UnreadableCsvOf(env_src) :
              \E m \in 1..Len(errors) : errors[m] = <<"csv_failed", env_src[i].name>>
        /\ env_data = <<>>
        /\ pc \in {"growth", "gate", "stopped"}

\* C2 amended: when some .csv entry cannot be parsed, an error naming that
\* file is shown, the loop goes on and the mapping of the remaining readable
\* files is returned; the render is halted only when that mapping (or the
\* growth mapping) is empty.
C2_ParseFailureSkipsFile ==
    (EnvLoaded /\ UnreadableCsvOf(env_src) # {}) =>
        /\ \A i \in UnreadableCsvOf(env_src) :
              \E m \in 1..Len(errors) : errors[m] = <<"csv_failed", env_src[i].name>>
        /\ \A g \in G : HasKey(env_data, GROUPS[g]) <=> ReadableEnvFilesOf(env_src, g) # {}
        /\ Len(env_data) = Cardinality(CsvOf(env_src) \ UnreadableCsvOf(env_src))
        /\ PastGate => (HaltedAtGate <=> (env_data = <<>> \/ growth_data = <<>>))

\* a render that went through all tabs although a .csv entry failed to parse
C2_Witness ==
    /\ pc = "done"
    /\ UnreadableCsvOf(env_src) # {}
    /\ env_data # <<>>

(***************************************************************************)
(* C3                                                                      *)
(***************************************************************************)
\* C3: for every configured school g and every readable entry stored under
\* the composed or the decomposed spelling of "<g>_환경데이터.csv", the
\* returned mapping has the key g as EC_TARGET writes it, holding that
\* entry's table, so that EC_TARGET.get(key) finds a target and the time
\* series lookup env_data[g] of tab 2 does not fail.
C3_EitherFormYieldsGroupKey ==
    EnvLoaded =>
        \A g \in G : \A i \in ReadableEnvFilesOf(env_src, g) :
            /\ HasKey(env_data, GROUPS[g])
            /\ Get(env_data, GROUPS[g]) = env_src[i].rows
            /\ GetOrNone(EC_TARGET, GROUPS[g]) # None
            /\ \A r \in 1..Len(summary_df) :
                  summary_df[r].school = GROUPS[g] => summary_df[r].target = EC_TARGET[g][2]
            /\ selected_school = GROUPS[g] => exc # "KeyError in tab2"

\* the time series of a school whose file is stored under the decomposed
\* spelling was drawn
C3_Witness ==
    /\ pc = "done"
    /\ \E g \in G :
          /\ selected_school = GROUPS[g]
          /\ \E i \in 1..Len(env_src) : env_src[i].name = EnvNameNFD(g) /\ env_src[i].ok

(***************************************************************************)
(* C4                                                                      *)
(***************************************************************************)
AllFourPresent ==
    /\ BothLoaded
    /\ \A g \in G : ReadableEnvFilesOf(env_src, g) # {}
    /\ \A g \in G : HasKey(growth_data, GROUPS[g])

FourGroupRows(df) ==
    /\ Len(df) = Len(GROUPS)
    /\ SchoolsIn(df) = GroupSet

C5_BestIsFirstMaximal ==
    pc = "done" =>
        \E i \in 1..Len(growth_data) :
            /\ best_ec = EcOf(growth_data[i][1])
            /\ growth_data[i][2] # <<>>
            /\ \A j \in 1..Len(growth_data) :
                  growth_data[j][2] = <<>> \/ ~AvgGreater(growth_data[j][2], growth_data[i][2])
            /\ \A j \in 1..(i - 1) :
                  growth_data[j][2] = <<>> \/ AvgGreater(growth_data[i][2], growth_data[j][2])

\* two sheets tie at the maximum, with different numbers of rows, and the
\* earlier one, which has the higher EC, is reported
C5_Witness ==
    /\ pc = "done"
    /\ \E i, j \in 1..Len(growth_data) :
          /\ i < j
          /\ growth_data[i][2] # <<>> /\ growth_data[j][2] # <<>>
          /\ Len(growth_data[i][2]) # Len(growth_data[j][2])
          /\ AvgSame(growth_data[i][2], growth_data[j][2])
          /\ \A k \in 1..Len(growth_data) :
                growth_data[k][2] = <<>> \/ ~AvgGreater(growth_data[k][2], growth_data[i][2])
          /\ EcOf(growth_data[i][1]) > EcOf(growth_data[j][1])
          /\ best_ec = EcOf(growth_data[i][1])

(***************************************************************************)
(* C6                                                                      *)
(***************************************************************************)
\* C6: a school or sheet that is in only one of the two loaded mappings is
\* not fatal: the render does not end in an exception, and when it is
\* complete the summaries hold only schools that are in both mappings.
C6_OneSidedGroupIsNonFatal ==
    (PastGate /\ ~HaltedAtGate /\ KeySet(env_data) # KeySet(growth_data)) =>
        /\ pc # "crashed"
        /\ pc = "done" =>
              /\ SchoolsIn(summary_df) \subseteq KeySet(env_data) \cap KeySet(growth_data)
              /\ SchoolsIn(gdf) \subseteq KeySet(env_data) \cap KeySet(growth_data)

(***************************************************************************)
(* C7                                                                      *)
(***************************************************************************)
\* C7: when one or more sheets have no rows, all of them included, the
\* render fails neither on a mean nor on the selection of the best school,
\* and a school without rows is never reported as the best.
C7_ZeroRowSheetsHandled ==
    (PastGate /\ \E i \in 1..Len(growth_data) : growth_data[i][2] = <<>>) =>
        /\ exc # "no best_idx in tab3"
        /\ pc = "done" =>
              \A i \in 1..Len(growth_data) :
                  growth_data[i][2] = <<>> => best_ec # EcOf(growth_data[i][1])

(***************************************************************************)
(* C8                                                                      *)
(***************************************************************************)
LoadFailed(r) == r.value = <<>> \/ r.msgs # <<>>

\* C8: without a cache clear, a render that follows a successful load uses
\* the mapping of that load without reading the disk again, and a render
\* that follows a failed load (empty mapping, or a file skipped) of a
\* directory that has changed since uses what the directory holds now.
C8_FailedLoadIsNotReused ==
    pc = "gate" =>
        /\ env_data = IF LoadFailed(cache_env[1]) /\ env_src # dir
                      THEN load_environment_data(dir).value
                      ELSE cache_env[1].value
        /\ growth_data = IF LoadFailed(cache_growth[1]) /\ growth_src # dir
                         THEN load_growth_data(dir).value
                         ELSE cache_growth[1].value
        /\ (~LoadFailed(cache_env[1]) => reads.env = 1)
        /\ (~LoadFailed(cache_growth[1]) => reads.growth = 1)

(***************************************************************************)
(* C9                                                                      *)
(***************************************************************************)
Opened == cache_growth[1].opened

\* C9 as stated: with more than one .xlsx entry the mapping is parsed from
\* the first of them in enumeration order and no later one is opened; with
\* none, the load reports that no source file was found, returns an empty
\* mapping and the render halts.
C9_OnlyFirstXlsxOpened ==
    BothLoaded =>
        /\ Cardinality(XlsxOf(growth_src)) > 1 =>
              /\ Opened = <<Least(XlsxOf(growth_src))>>
              /\ Keys(growth_data) =
                    [k \in 1..Len(growth_src[Least(XlsxOf(growth_src))].sheets) |->
                        growth_src[Least(XlsxOf(growth_src))].sheets[k].name]
        /\ XlsxOf(growth_src) = {} =>
              /\ growth_data = <<>>
              /\ \E m \in 1..Len(errors) : errors[m] = <<"no_xlsx">>
              /\ PastGate => HaltedAtGate

\* C9 amended: the mapping is parsed from the first .xlsx entry, in
\* enumeration order, that can be read; the entries before it are opened
\* and each is reported as a failure, and no entry after it is opened; when
\* there is no .xlsx entry, or none can be read, the load reports that no
\* source file was found, returns an empty mapping and the render halts.
C9_FirstReadableXlsxWins ==
    BothLoaded =>
        LET X == XlsxOf(growth_src)
            R == ReadableXlsxOf(growth_src)
        IN IF R # {}
           THEN /\ Opened = Ascending({i \in X : i <= Least(R)})
                /\ growth_data =
                      [k \in 1..Len(growth_src[Least(R)].sheets) |->
                          <<growth_src[Least(R)].sheets[k].name,
                            growth_src[Least(R)].sheets[k].rows>>]
                /\ Cardinality({m \in 1..Len(errors) : errors[m] = <<"xlsx_failed">>})
                      = Len(Opened) - 1
                /\ \A m \in 1..Len(errors) : errors[m] # <<"no_xlsx">>
           ELSE /\ Opened = Ascending(X)
                /\ growth_data = <<>>
                /\ \E m \in 1..Len(errors) : errors[m] = <<"no_xlsx">>
                /\ PastGate => HaltedAtGate

\* two .xlsx entries, the first unreadable: the second was opened and used
C9_Witness ==
    /\ BothLoaded
    /\ Cardinality(XlsxOf(growth_src)) > 1
    /\ ~growth_src[Least(XlsxOf(growth_src))].ok
    /\ Len(Opened) = 2
    /\ growth_data # <<>>

(***************************************************************************)
(* C10                                                                     *)
(***************************************************************************)
\* C10: in every complete render the optimal EC on the overview tab's card
\* equals the best EC on the growth tab.
C10_OverviewCardAgreesWithBest ==
    pc = "done" => cards[1].optimal.ec = best_ec

====
